---- MODULE Spec2Model ----
(***************************************************************************)
(* Composify: the Service model (types.py), the compose-file mutators     *)
(* (utils.py) and the commands (cli.py).  Strings that the code splits and *)
(* strips are sequences of one-character strings; YAML documents are       *)
(* ordered sequences of entries.                                           *)
(***************************************************************************)
EXTENDS Integers, Sequences, FiniteSets, TLC

VARIABLES
    phase,        \* which step of the specification at hand has run
    rawProfiles,  \* the value passed as Service(profiles=...)
    profiles,     \* Service.profiles after the two validators
    kwargs,       \* the keyword arguments of Service(...)
    service,      \* the constructed Service
    out,          \* Service.to_compose_value(): ordered <<key, value>> pairs
    compose_file, \* content of the target compose file (compose_path)
    main_file,    \* content of the main compose file (main_compose)
    last,         \* the last call of a file operation and its outcome
    prev,         \* the call before it
    title,        \* Service.primary_profile_title(): the include comment
    stack_dir,    \* whether the directory of compose_path exists
    used,         \* the subnets listed under the main file's networks
    chosen,       \* the outcome of pick_unused_subnet(used)
    secret_files, \* the files of the secrets directory: name -> content
    cli,          \* the running command: its arguments and position
    events,       \* what the command showed, asked and wrote, in order
    start         \* the file system when the command started

subnetVars == <<used, chosen>>

cliVars == <<secret_files, cli, events, start>>

vars == <<phase, rawProfiles, profiles, kwargs, service, out,
          compose_file, main_file, last, prev, title, stack_dir,
          subnetVars, cliVars>>

----------------------------------------------------------------------------
(* Bounds *)

\* a profiles input holds at most this many characters, counting one
\* separator between two list items
MaxInputLen == 5

\* a compose file holds at most this many services before the first call
MaxServices == 2

\* the include list holds at most this many entries before the first call
MaxInclude == 2

\* the candidate pool of the subnet allocator holds this many blocks
PoolSize == 5

----------------------------------------------------------------------------
(* Strings as sequences of characters *)

Chars == {"a", "l", ",", " "}

ALL == <<"a", "l", "l">>

None == "None"

StrsUpTo(n) == UNION {[1..k -> Chars] : k \in 0..n}

\* str.split(","): cut at every comma, keeping empty pieces
RECURSIVE split(_)
split(s) ==
    IF \A i \in 1..Len(s) : s[i] # ","
    THEN <<s>>
    ELSE LET i == CHOOSE j \in 1..Len(s) :
                      s[j] = "," /\ \A k \in 1..(j - 1) : s[k] # ","
         IN  <<SubSeq(s, 1, i - 1)>> \o split(SubSeq(s, i + 1, Len(s)))

\* str.strip(): drop leading and trailing whitespace
RECURSIVE strip(_)
strip(s) ==
    IF s = <<>> THEN s
    ELSE IF Head(s) = " " THEN strip(Tail(s))
    ELSE IF s[Len(s)] = " " THEN strip(SubSeq(s, 1, Len(s) - 1))
    ELSE s

----------------------------------------------------------------------------
(* Service.profiles validators *)

\* the inner loop: for tok in str(item).split(","): t = tok.strip(); if t: ...
RECURSIVE flatten_tokens(_)
flatten_tokens(toks) ==
    IF toks = <<>> THEN <<>>
    ELSE LET t == strip(Head(toks))
         IN  (IF t # <<>> THEN <<t>> ELSE <<>>) \o flatten_tokens(Tail(toks))

\* the outer loop: for item in items
RECURSIVE flatten_items(_)
flatten_items(items) ==
    IF items = <<>> THEN <<>>
    ELSE flatten_tokens(split(Head(items))) \o flatten_items(Tail(items))

\* v is [kind |-> "none" | "str" | "list", items |-> the list, or <<the string>>]
_flatten_profiles(v) ==
    IF v.kind = "none" THEN <<>>
    ELSE flatten_items(v.items)

RECURSIVE dedupe(_, _, _)
dedupe(v, seen, acc) ==
    IF v = <<>> THEN acc
    ELSE IF Head(v) \notin seen
         THEN dedupe(Tail(v), seen \cup {Head(v)}, Append(acc, Head(v)))
         ELSE dedupe(Tail(v), seen, acc)

\* a variant that removes the duplicates first and adds "all" afterwards
_ensure_all_and_dedupe_append_last(v) == dedupe(v, {}, <<>>) \o <<ALL>>

_ensure_all_and_dedupe(v) == dedupe(v \o <<ALL>>, {}, <<>>)

\* cut a character sequence at every "|" into the items of a list
RECURSIVE items_of(_)
items_of(s) ==
    IF \A i \in 1..Len(s) : s[i] # "|"
    THEN <<s>>
    ELSE LET i == CHOOSE j \in 1..Len(s) :
                      s[j] = "|" /\ \A k \in 1..(j - 1) : s[k] # "|"
         IN  <<SubSeq(s, 1, i - 1)>> \o items_of(SubSeq(s, i + 1, Len(s)))

Unset == [kind |-> "unset", items |-> <<>>]

\* None, a single string, the empty list, and every list of strings whose
\* characters and separators number at most MaxInputLen
ProfileInputs ==
    {[kind |-> "none", items |-> <<>>], [kind |-> "list", items |-> <<>>]}
    \cup {[kind |-> "str", items |-> <<s>>] : s \in StrsUpTo(MaxInputLen)}
    \cup {[kind |-> "list", items |-> items_of(s)] :
            s \in UNION {[1..k -> Chars \cup {"|"}] : k \in 0..MaxInputLen}}

----------------------------------------------------------------------------
(* The Service model.  A Python string is a sequence of string chunks, so    *)
(* that an f-string is a concatenation.  A YAML value is                    *)
(* [t |-> "none" | "str" | "list" | "map", v |-> its entries], an entry     *)
(* being [k |-> key, v |-> string]; k is <<>> outside a map.               *)

RESTART_CHOICES == {<<"always">>, <<"unless-stopped">>, <<"on-failure">>, <<"no">>}

NoneVal == [t |-> "none", v |-> <<>>]
StrVal(s) == [t |-> "str", v |-> <<[k |-> <<>>, v |-> s]>>]
ListVal(l) == [t |-> "list", v |-> [i \in 1..Len(l) |-> [k |-> <<>>, v |-> l[i]]]]
MapVal(pairs) == [t |-> "map", v |-> pairs]

\* Python truthiness of a value: None, "", [] and {} are falsy
Truthy(x) ==
    /\ x.t # "none"
    /\ x.v # <<>>
    /\ (x.t = "str" => x.v[1].v # <<>>)

\* str(int) for the port numbers in use
str(n) ==
    CASE n = 0 -> <<"0">>
      [] n = 80 -> <<"80">>
      [] n = 8080 -> <<"8080">>
      [] n = 9000 -> <<"9000">>
      [] n = 5432 -> <<"5432">>

\* the default_factory of Service.environment
default_environment ==
    MapVal(<< [k |-> <<"PUID">>, v |-> <<"$PUID">>],
              [k |-> <<"PGID">>, v |-> <<"$PGID">>],
              [k |-> <<"TZ">>, v |-> <<"$TZ">>] >>)

\* validator of container_name: return v or info.data.get("name")
_default_container_name(v, name) == IF Truthy(v) THEN v ELSE StrVal(name)

\* Service(**kw): a field that is not passed takes its default, and the
\* validators run on the fields that are passed.  kw.profiles is a profiles
\* input or Unset; kw.container_name and kw.environment are a value or Unset.
Service(kw) ==
    [ name |-> kw.name,
      image |-> kw.image,
      container_path |-> kw.container_path,
      profiles |-> IF kw.profiles = Unset THEN <<>>
                   ELSE _ensure_all_and_dedupe(_flatten_profiles(kw.profiles)),
      restart |-> kw.restart,
      expose |-> kw.expose,
      internal_port |-> kw.internal_port,
      external_port |-> kw.external_port,
      middleware_chain |-> kw.middleware_chain,
      container_name |-> IF kw.container_name = Unset THEN NoneVal
                         ELSE _default_container_name(kw.container_name, kw.name),
      environment |-> IF kw.environment = Unset THEN default_environment
                      ELSE kw.environment ]

\* Service.volumes
volumes(self) ==
    ListVal(<< <<"${DOCKERDIR}/">> \o self.name \o <<":">> \o self.container_path >>)

\* Service.networks
\* a variant with the condition inverted
networks_inverted(self) ==
    IF ~self.expose THEN ListVal(<< <<"t2_proxy">> >>) ELSE NoneVal

networks(self) == IF self.expose THEN ListVal(<< <<"t2_proxy">> >>) ELSE NoneVal

\* the grave accent of the Host rule, which a TLA+ string cannot hold
Backtick == "U+0060"

\* Service.labels
labels(self) ==
    IF ~self.expose THEN NoneVal
    ELSE LET n == self.name
             base == << [k |-> <<"traefik.enable">>, v |-> <<"true">>],
                        [k |-> <<"traefik.http.routers.">> \o n \o <<"-rtr.entrypoints">>,
                         v |-> <<"web-secure">>],
                        [k |-> <<"traefik.http.routers.">> \o n \o <<"-rtr.rule">>,
                         v |-> <<"Host(", Backtick>> \o n
                                  \o <<".${DOMAINNAME}", Backtick, ")">>],
                        [k |-> <<"traefik.http.routers.">> \o n \o <<"-rtr.service">>,
                         v |-> n \o <<"-svc">>],
                        [k |-> <<"traefik.http.services.">> \o n
                                  \o <<"-svc.loadbalancer.server.port">>,
                         v |-> str(self.internal_port)] >>
         IN  IF Truthy(self.middleware_chain)
             THEN MapVal(Append(base,
                    [k |-> <<"traefik.http.routers.">> \o n \o <<"-rtr.middlewares">>,
                     v |-> self.middleware_chain.v[1].v \o <<"@file">>]))
             ELSE MapVal(base)

\* Service.ports; external_port is an integer or -1 for None
NoPort == -1

\* a variant that tests the external port by truthiness, so that 0 counts
\* as not given
ports_truthy(self) ==
    IF self.expose THEN NoneVal
    ELSE LET ext == IF self.external_port # NoPort /\ self.external_port # 0
                    THEN self.external_port
                    ELSE self.internal_port
         IN  ListVal(<< str(ext) \o <<":">> \o str(self.internal_port) >>)

ports(self) ==
    IF self.expose THEN NoneVal
    ELSE LET ext == IF self.external_port # NoPort THEN self.external_port
                    ELSE self.internal_port
         IN  ListVal(<< str(ext) \o <<":">> \o str(self.internal_port) >>)

\* str.upper and str.lower over the letters of the model's names and profiles
upper(s) ==
    [i \in DOMAIN s |->
        CASE s[i] = "a" -> "A" [] s[i] = "b" -> "B" [] s[i] = "d" -> "D"
          [] s[i] = "e" -> "E" [] s[i] = "l" -> "L" [] s[i] = "p" -> "P"
          [] s[i] = "w" -> "W" [] OTHER -> s[i]]

lower(s) ==
    [i \in DOMAIN s |->
        CASE s[i] = "A" -> "a" [] s[i] = "B" -> "b" [] s[i] = "D" -> "d"
          [] s[i] = "E" -> "e" [] s[i] = "L" -> "l" [] s[i] = "P" -> "p"
          [] s[i] = "W" -> "w" [] OTHER -> s[i]]

\* a variant that compares the profile with "all" as it is written
primary_profile_title_exact(self) ==
    LET title_of(p) == upper(SubSeq(p, 1, 1)) \o SubSeq(p, 2, Len(p))
        others == {i \in DOMAIN self.profiles : self.profiles[i] # ALL}
    IN  IF others # {}
        THEN title_of(self.profiles[CHOOSE i \in others : \A j \in others : i <= j])
        ELSE title_of(self.name)

\* Service.primary_profile_title: p[:1].upper() + p[1:] of the first profile
\* whose lower() is not "all", else of the name
primary_profile_title(self) ==
    LET title_of(p) == upper(SubSeq(p, 1, 1)) \o SubSeq(p, 2, Len(p))
        others == {i \in DOMAIN self.profiles : lower(self.profiles[i]) # ALL}
    IN  IF others # {}
        THEN title_of(self.profiles[CHOOSE i \in others : \A j \in others : i <= j])
        ELSE title_of(self.name)

\* a variant that emits restart unconditionally and ports outside the else
to_compose_value_unguarded(self) ==
    LET e(key, val) == <<[key |-> key, val |-> val]>>
    IN  e("image", StrVal(self.image))
        \o e("container_name",
             IF Truthy(self.container_name) THEN self.container_name
             ELSE StrVal(self.name))
        \o e("restart", self.restart)
        \o (IF self.profiles # <<>> THEN e("profiles", ListVal(self.profiles)) ELSE <<>>)
        \o (IF self.expose /\ Truthy(networks(self))
            THEN e("networks", networks(self)) ELSE <<>>)
        \o e("volumes", volumes(self))
        \o (IF Truthy(self.environment) THEN e("environment", self.environment) ELSE <<>>)
        \o (IF self.expose /\ Truthy(labels(self)) THEN e("labels", labels(self)) ELSE <<>>)
        \o e("ports", ListVal(<< str(self.internal_port) \o <<":">>
                                   \o str(self.internal_port) >>))

\* Service.to_compose_value: the ordered dict as a sequence of [key, val]
to_compose_value(self) ==
    LET e(key, val) == <<[key |-> key, val |-> val]>>
    IN  e("image", StrVal(self.image))
        \o e("container_name",
             IF Truthy(self.container_name) THEN self.container_name
             ELSE StrVal(self.name))
        \o (IF self.restart # NoneVal THEN e("restart", self.restart) ELSE <<>>)
        \o (IF self.profiles # <<>> THEN e("profiles", ListVal(self.profiles)) ELSE <<>>)
        \o (IF self.expose /\ Truthy(networks(self))
            THEN e("networks", networks(self)) ELSE <<>>)
        \o e("volumes", volumes(self))
        \o (IF Truthy(self.environment) THEN e("environment", self.environment) ELSE <<>>)
        \o (IF self.expose
            THEN (IF Truthy(labels(self)) THEN e("labels", labels(self)) ELSE <<>>)
            ELSE (IF Truthy(ports(self)) THEN e("ports", ports(self)) ELSE <<>>))

----------------------------------------------------------------------------
(* YAML files.  A file is [exists, top, head, entries]: top is the kind of  *)
(* its top-level node ("null" for an empty document, "seq", "str", "map"), *)
(* head the comment at the top of the file, entries the top-level mapping  *)
(* in order.  An entry is [key, c, t, items]: c the comment before the key, *)
(* t the kind of the value, items its children in order.  An item is       *)
(* [k, t, c, def]: k the service name or the list element, t the scalar    *)
(* kind of a list element ("str" or "int"), c the comment before it and    *)
(* def the service definition.                                            *)

NoComment == <<>>

Absent == [exists |-> FALSE, top |-> "none", head |-> NoComment, entries |-> <<>>]

Entry(key, c, t, items) == [key |-> key, c |-> c, t |-> t, items |-> items]

Item(k, t, c, def) == [k |-> k, t |-> t, c |-> c, def |-> def]

\* CommentedMap(): the empty mapping
CommentedMap == [head |-> NoComment, entries |-> <<>>]

\* yaml_rt.load(text) followed by the callers' replacement of anything that
\* is not a mapping (None, a list, a scalar) by an empty CommentedMap
load(file) ==
    IF file.top = "map"
    THEN [head |-> file.head, entries |-> file.entries]
    ELSE CommentedMap

\* yaml_rt.dump(data, f) into the opened file
dump(data) ==
    [exists |-> TRUE, top |-> "map", head |-> data.head, entries |-> data.entries]

HasEntry(data, key) == \E i \in DOMAIN data.entries : data.entries[i].key = key

IndexOf(data, key) == CHOOSE i \in DOMAIN data.entries : data.entries[i].key = key

\* data.get(key): the entry, or None when the key is absent or its value null
get(data, key) ==
    IF HasEntry(data, key) THEN data.entries[IndexOf(data, key)]
    ELSE Entry(key, NoComment, "null", <<>>)

\* data[key] = value on an ordered mapping: in place when the key exists
set_entry(data, key, t, items) ==
    IF HasEntry(data, key)
    THEN [data EXCEPT !.entries[IndexOf(data, key)].t = t,
                      !.entries[IndexOf(data, key)].items = items]
    ELSE [data EXCEPT !.entries = Append(@, Entry(key, NoComment, t, items))]

\* services[name] = value on an ordered mapping: in place when the key exists
set_item(items, name, def) ==
    IF \E i \in DOMAIN items : items[i].k = name
    THEN [i \in DOMAIN items |->
            IF items[i].k = name THEN [items[i] EXCEPT !.def = def] ELSE items[i]]
    ELSE Append(items, Item(name, "str", NoComment, def))

\* the outcome of a call: what it returned or raised, the value returned,
\* the file afterwards and whether the file was opened for writing
Outcome(ret, value, file, wrote) ==
    [ret |-> ret, value |-> value, file |-> file, wrote |-> wrote]

----------------------------------------------------------------------------
(* utils.py: operations on the target compose file *)

\* a variant without the test that the file exists
get_existing_service_names_unguarded(file) ==
    LET data == load(file)
        services == get(data, "services")
    IN  IF services.t # "map"
        THEN Outcome("NoServices", <<>>, file, FALSE)
        ELSE Outcome("names",
                     [i \in DOMAIN services.items |-> services.items[i].k],
                     file, FALSE)

get_existing_service_names(file) ==
    IF ~file.exists THEN Outcome("NotFound", <<>>, file, FALSE)
    ELSE LET data == load(file)
             services == get(data, "services")
         IN  IF services.t # "map"
             THEN Outcome("NoServices", <<>>, file, FALSE)
             ELSE Outcome("names",
                          [i \in DOMAIN services.items |-> services.items[i].k],
                          file, FALSE)

\* a variant that adds a missing 'services' mapping instead of raising, and
\* treats a missing file as an empty one
upsert_service_in_file_lenient(file, svc) ==
    LET data == load(file)
        services == get(data, "services")
        items == IF services.t = "map" THEN services.items ELSE <<>>
    IN  Outcome("None", to_compose_value(svc),
                dump(set_entry(data, "services", "map",
                               set_item(items, svc.name, to_compose_value(svc)))),
                TRUE)

\* a variant that refuses a name that is already a key of 'services'
upsert_service_in_file_guarded(file, svc) ==
    IF ~file.exists THEN Outcome("NotFound", <<>>, file, FALSE)
    ELSE LET data == load(file)
             services == get(data, "services")
         IN  IF services.t # "map"
             THEN Outcome("NoServices", <<>>, file, FALSE)
             ELSE IF \E i \in DOMAIN services.items : services.items[i].k = svc.name
             THEN Outcome("AlreadyExists", <<>>, file, FALSE)
             ELSE Outcome("None", to_compose_value(svc),
                          dump(set_entry(data, "services", "map",
                                 set_item(services.items, svc.name,
                                          to_compose_value(svc)))),
                          TRUE)

\* a variant that deletes an existing key and adds it again at the end
upsert_service_in_file_reinsert(file, svc) ==
    IF ~file.exists THEN Outcome("NotFound", <<>>, file, FALSE)
    ELSE LET data == load(file)
             services == get(data, "services")
         IN  IF services.t # "map"
             THEN Outcome("NoServices", <<>>, file, FALSE)
             ELSE Outcome("None", to_compose_value(svc),
                          dump(set_entry(data, "services", "map",
                                 Append(SelectSeq(services.items,
                                                  LAMBDA it : it.k # svc.name),
                                        Item(svc.name, "str", NoComment,
                                             to_compose_value(svc))))),
                          TRUE)

upsert_service_in_file(file, svc) ==
    IF ~file.exists THEN Outcome("NotFound", <<>>, file, FALSE)
    ELSE LET data == load(file)
             services == get(data, "services")
         IN  IF services.t # "map"
             THEN Outcome("NoServices", <<>>, file, FALSE)
             ELSE Outcome("None", to_compose_value(svc),
                          dump(set_entry(data, "services", "map",
                                 set_item(services.items, svc.name,
                                          to_compose_value(svc)))),
                          TRUE)

\* the outcome of write_new_stack_file, with the directory afterwards
StackOutcome(ret, value, file, wrote, dir) ==
    [ret |-> ret, value |-> value, file |-> file, wrote |-> wrote, dir |-> dir]

\* the file that write_new_stack_file dumps: 'services' with the one service
new_stack(svc) ==
    dump(set_entry(CommentedMap, "services", "map",
                   set_item(<<>>, svc.name, to_compose_value(svc))))

\* a variant that opens the file for writing before it tests for it
write_new_stack_file_open_first(dir, file, svc, overwrite) ==
    IF file.exists /\ ~overwrite
    THEN StackOutcome("AlreadyExists", <<>>,
                      [exists |-> TRUE, top |-> "null", head |-> NoComment,
                       entries |-> <<>>],
                      TRUE, TRUE)
    ELSE StackOutcome("None", to_compose_value(svc), new_stack(svc), TRUE, TRUE)

\* a variant that never looks at the overwrite flag
write_new_stack_file_overwriting(dir, file, svc, overwrite) ==
    StackOutcome("None", to_compose_value(svc), new_stack(svc), TRUE, TRUE)

\* dir: whether stack_compose.parent exists; mkdir(parents=True,
\* exist_ok=True) runs before the test for the file
write_new_stack_file(dir, file, svc, overwrite) ==
    LET made == TRUE
    IN  IF file.exists /\ ~overwrite
        THEN StackOutcome("AlreadyExists", <<>>, file, FALSE, made)
        ELSE StackOutcome("None", to_compose_value(svc), new_stack(svc), TRUE, made)

----------------------------------------------------------------------------
(* utils.py: operations on the main compose file *)

load_main_compose(file) ==
    IF file.exists THEN load(file) ELSE CommentedMap

\* [str(item) for item in include]
existing_of(include) == {include.items[i].k : i \in DOMAIN include.items}

\* the function with its duplicate check or its tolerance of a comment
\* failure switched off
append_variant(file, rel_include_path, comment_text, attached, checked, tolerant) ==
    LET data0 == load_main_compose(file)
        data == IF get(data0, "include").t = "null"
                THEN set_entry(data0, "include", "seq", <<>>)
                ELSE data0
        include == get(data, "include")
    IN  IF include.t # "seq"
        THEN Outcome("IncludeNotList", <<>>, file, FALSE)
        ELSE IF checked /\ rel_include_path \in existing_of(include)
        THEN Outcome("False", <<>>, file, FALSE)
        ELSE IF ~tolerant /\ ~attached
        THEN Outcome("CommentError", <<>>, file, FALSE)
        ELSE Outcome("True", <<>>,
                     dump(set_entry(data, "include", "seq",
                            Append(include.items,
                                   Item(rel_include_path, "str",
                                        IF attached THEN comment_text ELSE NoComment,
                                        <<>>)))),
                     TRUE)

\* a variant that appends without looking for the path in the list
append_to_include_with_comment_unchecked(file, rel_include_path, comment_text, attached) ==
    append_variant(file, rel_include_path, comment_text, attached, FALSE, TRUE)

\* a variant that lets the failure to attach the comment propagate
append_to_include_with_comment_strict(file, rel_include_path, comment_text, attached) ==
    append_variant(file, rel_include_path, comment_text, attached, TRUE, FALSE)

\* attached tells whether yaml_set_comment_before_after_key succeeded; an
\* exception it raises is swallowed and the entry stays without comment
append_to_include_with_comment(file, rel_include_path, comment_text, attached) ==
    LET data0 == load_main_compose(file)
        data == IF get(data0, "include").t = "null"
                THEN set_entry(data0, "include", "seq", <<>>)
                ELSE data0
        include == get(data, "include")
    IN  IF include.t # "seq"
        THEN Outcome("IncludeNotList", <<>>, file, FALSE)
        ELSE IF rel_include_path \in existing_of(include)
        THEN Outcome("False", <<>>, file, FALSE)
        ELSE Outcome("True", <<>>,
                     dump(set_entry(data, "include", "seq",
                            Append(include.items,
                                   Item(rel_include_path, "str",
                                        IF attached THEN comment_text ELSE NoComment,
                                        <<>>)))),
                     TRUE)

(* Specification of the profiles validators: Service(profiles=rawProfiles) *)

Idle == "idle"

SubnetIdle == used = Idle /\ chosen = Idle

CliIdle == secret_files = Idle /\ cli = Idle /\ events = Idle /\ start = Idle

InitProfiles ==
    /\ phase = "input"
    /\ rawProfiles \in ProfileInputs
    /\ profiles = <<>>
    /\ kwargs = Idle /\ service = Idle /\ out = Idle
    /\ compose_file = Idle /\ main_file = Idle /\ last = Idle /\ prev = Idle
    /\ title = Idle /\ stack_dir = Idle /\ SubnetIdle /\ CliIdle

\* pydantic runs the "before" validator, then the "after" validator
ValidateProfiles ==
    /\ phase = "input"
    /\ profiles' = _ensure_all_and_dedupe(_flatten_profiles(rawProfiles))
    /\ phase' = "validated"
    /\ UNCHANGED <<title, stack_dir, subnetVars, cliVars, rawProfiles, kwargs,
                   service, out, compose_file, main_file, last, prev>>

NextProfiles == ValidateProfiles

SpecProfiles == InitProfiles /\ [][NextProfiles]_vars

----------------------------------------------------------------------------
(* Specification of the Service projection *)

Names == {<<"w", "e", "b">>, <<"d", "b">>, <<"a", "p", "p">>}

ServiceInputs ==
    [ name : Names,
      image : {<<"ghcr.io/org/app:latest">>},
      container_path : {<<"/config">>},
      profiles : {Unset,
                  [kind |-> "list", items |-> <<>>],
                  [kind |-> "list", items |-> <<ALL>>],
                  [kind |-> "list", items |-> << <<"a", ",", "l">> >>],
                  [kind |-> "list", items |-> << <<"A", "l", "l">> >>],
                  [kind |-> "list", items |-> << ALL \o <<",", "l">> >>]},
      restart : {NoneVal} \cup {StrVal(r) : r \in RESTART_CHOICES},
      expose : BOOLEAN,
      internal_port : {80, 8080},
      external_port : {NoPort, 0, 9000},
      middleware_chain : {NoneVal, StrVal(<<>>), StrVal(<<"chain-oauth">>)},
      container_name : {Unset, NoneVal, StrVal(<<"app">>)},
      environment : {Unset, MapVal(<<>>),
                     MapVal(<<[k |-> <<"TZ">>, v |-> <<"UTC">>]>>)} ]

InitService ==
    /\ phase = "input"
    /\ kwargs \in ServiceInputs
    /\ service = Idle /\ out = Idle
    /\ rawProfiles = Idle /\ profiles = Idle
    /\ compose_file = Idle /\ main_file = Idle /\ last = Idle /\ prev = Idle
    /\ title = Idle /\ stack_dir = Idle /\ SubnetIdle /\ CliIdle

Construct ==
    /\ phase = "input"
    /\ service' = Service(kwargs)
    /\ phase' = "built"
    /\ UNCHANGED <<title, stack_dir, subnetVars, cliVars, rawProfiles, profiles,
                   kwargs, out, compose_file, main_file, last, prev>>

Project ==
    /\ phase = "built"
    /\ out' = to_compose_value(service)
    /\ phase' = "projected"
    /\ UNCHANGED <<title, stack_dir, subnetVars, cliVars, rawProfiles, profiles,
                   kwargs, service, compose_file, main_file, last, prev>>

\* new: comment = svc.primary_profile_title()
Title ==
    /\ phase = "projected"
    /\ title' = primary_profile_title(service)
    /\ phase' = "titled"
    /\ UNCHANGED <<stack_dir, subnetVars, cliVars, rawProfiles, profiles,
                   kwargs, service, out, compose_file, main_file, last, prev>>

NextService == Construct \/ Project \/ Title

SpecService == InitService /\ [][NextService]_vars

----------------------------------------------------------------------------
(* Specification of the file operations: calls of the utils.py functions   *)
(* on one target compose file, or on the main compose file                 *)

HeadComment == <<"# edited by hand">>

\* a service definition that is in the file before the first call
OldDef == <<[key |-> "image", val |-> StrVal(<<"registry/old:1">>)]>>

Doc(top, entries) ==
    [exists |-> TRUE, top |-> top, head |-> HeadComment, entries |-> entries]

VersionEntry ==
    Entry("version", NoComment, "str", <<Item(<<"3.9">>, "str", NoComment, <<>>)>>)

NetworksEntry ==
    Entry("networks", <<"# shared networks">>, "map",
          <<Item(<<"t2_proxy">>, "str", NoComment, <<>>)>>)

SecretsEntry ==
    Entry("secrets", NoComment, "map",
          <<Item(<<"db_password">>, "str", <<"# App Secrets">>, <<>>)>>)

SeqsUpTo(S, n) == UNION {[1..k -> S] : k \in 0..n}

Distinct(seq) == \A i, j \in DOMAIN seq : i # j => seq[i] # seq[j]

\* the services of a compose file: distinct names, in any order
ServiceLists ==
    {[i \in DOMAIN names |->
        Item(names[i], "str",
             IF names[i] = <<"d", "b">> THEN <<"# database">> ELSE NoComment,
             OldDef)] :
     names \in {q \in SeqsUpTo(Names, MaxServices) : Distinct(q)}}

ComposeFiles ==
    {Absent, Doc("null", <<>>), Doc("seq", <<>>), Doc("str", <<>>),
     Doc("map", <<>>), Doc("map", <<VersionEntry, NetworksEntry>>)}
    \cup {Doc("map", <<VersionEntry, Entry("services", NoComment, t, <<>>), NetworksEntry>>) :
            t \in {"null", "str", "seq"}}
    \cup {Doc("map", <<Entry("services", NoComment, "map", l)>>) : l \in ServiceLists}
    \cup {Doc("map", <<VersionEntry, Entry("services", <<"# stack">>, "map", l),
                       NetworksEntry>>) : l \in ServiceLists}

Paths == {<<"stacks/app1/docker-compose.yml">>, <<"stacks/app2/docker-compose.yml">>,
          <<"7">>}

\* entries of an include list before the first call: two paths, one of them
\* under a comment, and the integer 7, which str() turns into "7"
IncludeItems ==
    {Item(<<"stacks/app1/docker-compose.yml">>, "str", <<"# App1">>, <<>>),
     Item(<<"stacks/app2/docker-compose.yml">>, "str", NoComment, <<>>),
     Item(<<"7">>, "int", NoComment, <<>>)}

IncludeLists == SeqsUpTo(IncludeItems, MaxInclude)

MainFiles ==
    {Absent, Doc("null", <<>>), Doc("seq", <<>>), Doc("str", <<>>),
     Doc("map", <<>>), Doc("map", <<NetworksEntry, SecretsEntry>>)}
    \cup {Doc("map", <<NetworksEntry, Entry("include", NoComment, t, <<>>), SecretsEntry>>) :
            t \in {"null", "str", "map"}}
    \cup {Doc("map", <<Entry("include", NoComment, "seq", l)>>) : l \in IncludeLists}
    \cup {Doc("map", <<NetworksEntry, Entry("include", <<"# stacks">>, "seq", l),
                       SecretsEntry>>) : l \in IncludeLists}

CommentTexts == {<<"Media">>}

\* the services that the calls insert: every name, exposed or not
UpsertInputs ==
    [ name : Names,
      image : {<<"ghcr.io/org/app:latest">>},
      container_path : {<<"/config">>},
      profiles : {[kind |-> "list", items |-> <<>>]},
      restart : {StrVal(<<"unless-stopped">>)},
      expose : BOOLEAN,
      internal_port : {8080},
      external_port : {NoPort},
      middleware_chain : {NoneVal},
      container_name : {Unset},
      environment : {Unset} ]

NoCall ==
    [op |-> "none", arg |-> <<>>, ret |-> "none", value |-> <<>>, wrote |-> FALSE,
     before |-> Absent]

Call(op, arg, r, before) ==
    [op |-> op, arg |-> arg, ret |-> r.ret, value |-> r.value, wrote |-> r.wrote,
     before |-> before]

Brief(call) == [op |-> call.op, arg |-> call.arg, ret |-> call.ret]

InitCompose ==
    /\ phase = "compose"
    /\ compose_file \in ComposeFiles
    /\ stack_dir = Idle
    /\ main_file = Idle

\* the compose file of a stack and its directory: a file exists only in a
\* directory that exists
InitStack ==
    /\ phase = "stack"
    /\ compose_file \in ComposeFiles
    /\ stack_dir \in BOOLEAN
    /\ compose_file.exists => stack_dir
    /\ main_file = Idle

InitMain ==
    /\ phase = "main"
    /\ main_file \in MainFiles
    /\ compose_file = Idle
    /\ stack_dir = Idle

Init ==
    /\ InitCompose \/ InitStack \/ InitMain
    /\ last = NoCall
    /\ prev = Brief(NoCall)
    /\ rawProfiles = Idle /\ profiles = Idle
    /\ kwargs = Idle /\ service = Idle /\ out = Idle
    /\ title = Idle /\ SubnetIdle /\ CliIdle

Upsert ==
    /\ phase = "compose"
    /\ \E kw \in UpsertInputs :
          LET svc == Service(kw)
              r == upsert_service_in_file(compose_file, svc)
          IN  /\ compose_file' = r.file
              /\ last' = Call("upsert_service_in_file", svc.name, r, compose_file)
    /\ prev' = Brief(last)
    /\ UNCHANGED <<title, stack_dir, subnetVars, cliVars, phase, rawProfiles,
                   profiles, kwargs, service, out, main_file>>

WriteNewStack ==
    /\ phase = "stack"
    /\ \E kw \in UpsertInputs, overwrite \in BOOLEAN :
          LET svc == Service(kw)
              r == write_new_stack_file(stack_dir, compose_file, svc, overwrite)
          IN  /\ compose_file' = r.file
              /\ stack_dir' = r.dir
              /\ last' = Call("write_new_stack_file", svc.name, r, compose_file)
                            @@ [dir_before |-> stack_dir, overwrite |-> overwrite]
    /\ prev' = Brief(last)
    /\ UNCHANGED <<title, subnetVars, cliVars, phase, rawProfiles, profiles,
                   kwargs, service, out, main_file>>

GetNames ==
    /\ phase = "compose"
    /\ LET r == get_existing_service_names(compose_file)
       IN  /\ compose_file' = r.file
           /\ last' = Call("get_existing_service_names", <<>>, r, compose_file)
    /\ prev' = Brief(last)
    /\ UNCHANGED <<title, stack_dir, subnetVars, cliVars, phase, rawProfiles,
                   profiles, kwargs, service, out, main_file>>

LoadMain ==
    /\ phase = "main"
    /\ last' = Call("load_main_compose", <<>>,
                    Outcome("data", load_main_compose(main_file), main_file, FALSE),
                    main_file)
    /\ prev' = Brief(last)
    /\ UNCHANGED <<title, stack_dir, subnetVars, cliVars, phase, rawProfiles,
                   profiles, kwargs, service, out, compose_file, main_file>>

AppendInclude ==
    /\ phase = "main"
    /\ \E p \in Paths, c \in CommentTexts, attached \in BOOLEAN :
          LET r == append_to_include_with_comment(main_file, p, c, attached)
          IN  /\ main_file' = r.file
              /\ last' = Call("append_to_include_with_comment", p, r, main_file)
    /\ prev' = Brief(last)
    /\ UNCHANGED <<title, stack_dir, subnetVars, cliVars, phase, rawProfiles,
                   profiles, kwargs, service, out, compose_file>>

Next == Upsert \/ WriteNewStack \/ GetNames \/ LoadMain \/ AppendInclude

Spec == Init /\ [][Next]_vars

----------------------------------------------------------------------------
(* Specification of the subnet allocation of create_db.  The functions     *)
(* list_root_network_subnets, pick_unused_subnet and                       *)
(* upsert_network_in_main_compose are imported by cli.py; they follow      *)
(* section 4.4 of the specification.  A CIDR block is a pair: a candidate  *)
(* of the pool is <<"pool", i>>.                                           *)

Candidate(i) == <<"pool", i>>

\* the fixed ordered candidate pool
CandidatePool == [i \in 1..PoolSize |-> Candidate(i)]

\* a block that is in use and is not of the pool
Foreign == <<"other", 0>>

\* the first candidate not in used_cidrs, or Exhausted
pick_unused_subnet(used_cidrs) ==
    LET free == {i \in DOMAIN CandidatePool : CandidatePool[i] \notin used_cidrs}
    IN  IF free = {}
        THEN [ret |-> "Exhausted", value |-> <<>>]
        ELSE [ret |-> "subnet",
              value |-> CandidatePool[CHOOSE i \in free : \A j \in free : i <= j]]

\* the subnets of the networks of the main compose file
list_root_network_subnets(subnets) == subnets

\* the main file's networks gain one with the given subnet
upsert_network_in_main_compose(subnets, subnet) == subnets \cup {subnet}

NoPick == [ret |-> "none", value |-> <<>>, existing |-> {}]

InitSubnet ==
    /\ phase = "subnet"
    /\ used \in SUBSET ({CandidatePool[i] : i \in DOMAIN CandidatePool} \cup {Foreign})
    /\ chosen = NoPick
    /\ rawProfiles = Idle /\ profiles = Idle
    /\ kwargs = Idle /\ service = Idle /\ out = Idle
    /\ compose_file = Idle /\ main_file = Idle /\ last = Idle /\ prev = Idle
    /\ title = Idle /\ stack_dir = Idle /\ CliIdle

\* a variant that passes no existing subnets to the allocator
PickSubnet_unlisted ==
    /\ phase = "subnet"
    /\ chosen = NoPick
    /\ LET r == pick_unused_subnet({})
       IN  chosen' = [ret |-> r.ret, value |-> r.value, existing |-> used]
    /\ UNCHANGED <<phase, rawProfiles, profiles, kwargs, service, out,
                   compose_file, main_file, last, prev, title, stack_dir,
                   used, cliVars>>

\* create_db: existing_subnets = list_root_network_subnets(MAIN_COMPOSE);
\* chosen_subnet = pick_unused_subnet(existing_subnets)
PickSubnet ==
    /\ phase = "subnet"
    /\ chosen = NoPick
    /\ LET existing_subnets == list_root_network_subnets(used)
           r == pick_unused_subnet(existing_subnets)
       IN  chosen' = [ret |-> r.ret, value |-> r.value, existing |-> used]
    /\ UNCHANGED <<phase, rawProfiles, profiles, kwargs, service, out,
                   compose_file, main_file, last, prev, title, stack_dir,
                   used, cliVars>>

\* create_db, once confirmed: upsert_network_in_main_compose(MAIN_COMPOSE,
\* net_name, chosen_subnet)
AssignSubnet ==
    /\ phase = "subnet"
    /\ chosen.ret = "subnet"
    /\ used' = upsert_network_in_main_compose(used, chosen.value)
    /\ chosen' = NoPick
    /\ UNCHANGED <<phase, rawProfiles, profiles, kwargs, service, out,
                   compose_file, main_file, last, prev, title, stack_dir,
                   cliVars>>

NextSubnet == PickSubnet \/ AssignSubnet

SpecSubnet == InitSubnet /\ [][NextSubnet]_vars

----------------------------------------------------------------------------
(* Specification of the commands of cli.py: new, append, create_db and     *)
(* create_secret.  One behaviour is one run of a command, which may go on  *)
(* into create_db.  Each action runs the command from one prompt to the    *)
(* next.  The include section of the main compose file is main_file, its   *)
(* networks are the subnets in used, and its secrets are                   *)
(* secret_files.registered.  stacks/db-viewer.yml is taken to be missing.  *)
(* ensure_secret_files, upsert_root_secrets, attach_network_to_services    *)
(* and derive_app_name_from_compose are imported by cli.py; they follow    *)
(* sections 4.3, 4.5 and 4.6 of the specification.                         *)

Folder == <<"app1">>

\* str(stack_compose.relative_to(DEFAULT_ROOT))
rel_include_path(folder) == <<"stacks/">> \o folder \o <<"/docker-compose.yml">>

\* the first directory of the compose path under the stacks directory
derive_app_name_from_compose(folder) == folder

\* base if base.endswith("-db") else f"{base}-db"
db_name(base) ==
    IF base # <<>> /\ base[Len(base)] = "-db" THEN base ELSE base \o <<"-db">>

\* name.strip().replace('-', '_') of create_secret
secret_name_of(name) ==
    LET s == strip(name)
    IN  [i \in DOMAIN s |-> IF s[i] = "-" THEN "_" ELSE s[i]]

FileNames(files) == {f.name : f \in files}

\* writes every name, or writes nothing and reports the names that exist
ensure_secret_files(dir, contents) ==
    LET clash == {c.name : c \in contents} \cap FileNames(dir.files)
    IN  IF clash # {}
        THEN [ret |-> "AlreadyExists", value |-> clash, dir |-> dir]
        ELSE [ret |-> "None", value |-> {},
              dir |-> [dir EXCEPT !.exists = TRUE, !.files = @ \cup contents]]

\* the secrets mapping of the main compose file gains the names it lacks
upsert_root_secrets(dir, secret_names) ==
    [dir EXCEPT !.registered = @ \cup secret_names]

\* the named services of the compose file gain the network
attach_network_to_services(file, service_names, net_name) ==
    IF service_names = <<>> THEN file
    ELSE LET data == load(file)
             services == get(data, "services")
             joined(def) ==
                 def \o <<[key |-> "networks", val |-> ListVal(<<net_name>>)]>>
         IN  dump(set_entry(data, "services", "map",
                [i \in DOMAIN services.items |->
                    IF \E j \in DOMAIN service_names :
                          service_names[j] = services.items[i].k
                    THEN [services.items[i] EXCEPT !.def = joined(@)]
                    ELSE services.items[i]]))

\* the keyword arguments of Service(...) in new and append
service_kwargs(name) ==
    [ name |-> name,
      image |-> <<"ghcr.io/org/app:latest">>,
      container_path |-> <<"/config">>,
      profiles |-> [kind |-> "list", items |-> <<>>],
      restart |-> StrVal(<<"unless-stopped">>),
      expose |-> FALSE,
      internal_port |-> 8080,
      external_port |-> NoPort,
      middleware_chain |-> NoneVal,
      container_name |-> Unset,
      environment |-> Unset ]

PostgresPort == 5432

secret_user(app_name) == app_name \o <<"_", "postgresql", "_", "user">>

secret_password(app_name) == app_name \o <<"_", "postgresql", "_", "password">>

secret_db(app_name) == app_name \o <<"_", "postgresql", "_", "db">>

\* the keyword arguments of Service(...) in create_db; Service ignores the
\* arguments that are not fields of the model
db_service_kwargs(db_service_name, app_name, net_name) ==
    [ name |-> db_service_name,
      image |-> <<"docker.io/library/postgres:16-alpine">>,
      container_path |-> <<"/var/lib/postgresql/data">>,
      profiles |-> [kind |-> "list", items |-> <<>>],
      restart |-> StrVal(<<"unless-stopped">>),
      expose |-> FALSE,
      internal_port |-> PostgresPort,
      external_port |-> NoPort,
      middleware_chain |-> NoneVal,
      container_name |-> Unset,
      networks_extra |-> <<net_name>>,
      environment |->
          MapVal(<< [k |-> <<"PUID">>, v |-> <<"$PUID">>],
                    [k |-> <<"PGID">>, v |-> <<"$PGID">>],
                    [k |-> <<"TZ">>, v |-> <<"$TZ">>],
                    [k |-> <<"POSTGRES_USER_FILE">>,
                     v |-> <<"/run/secrets/">> \o secret_user(app_name)],
                    [k |-> <<"POSTGRES_PASSWORD_FILE">>,
                     v |-> <<"/run/secrets/">> \o secret_password(app_name)],
                    [k |-> <<"POSTGRES_DB_FILE">>,
                     v |-> <<"/run/secrets/">> \o secret_db(app_name)] >>),
      secrets |-> <<secret_db(app_name), secret_user(app_name),
                    secret_password(app_name)>> ]

\* the values typed at the credential prompts, left at their defaults
secret_contents(app_name) ==
    {[name |-> secret_user(app_name), value |-> app_name],
     [name |-> secret_password(app_name), value |-> <<"generated">>],
     [name |-> secret_db(app_name), value |-> app_name]}

CliNames == {<<"w", "e", "b">>, <<"w", "e", "b", "-db">>}

\* the compose file that append and create_db are pointed at: it exists
CliComposeFiles ==
    {Doc("map", <<VersionEntry>>)}
    \cup {Doc("map", <<Entry("services", NoComment, "map",
                            [i \in DOMAIN names |->
                                Item(names[i], "str", NoComment, OldDef)])>>) :
            names \in {q \in SeqsUpTo(CliNames, MaxServices) : Distinct(q)}}

CliMainFiles ==
    {Absent,
     Doc("map", <<VersionEntry>>),
     Doc("map", <<Entry("include", NoComment, "str", <<>>)>>),
     Doc("map", <<Entry("include", NoComment, "seq",
                        <<Item(rel_include_path(Folder), "str", <<"# App1">>,
                               <<>>)>>)>>)}

CliSubnets ==
    {{}, {Candidate(1), Foreign}, {CandidatePool[i] : i \in DOMAIN CandidatePool}}

NoSecrets == [exists |-> FALSE, files |-> {}, registered |-> {}]

SomeSecrets ==
    [exists |-> TRUE,
     files |-> {[name |-> <<"api", "_", "key">>, value |-> <<"old">>],
                [name |-> secret_password(<<"w", "e", "b">>), value |-> <<"old">>]},
     registered |-> {<<"api", "_", "key">>, secret_password(<<"w", "e", "b">>)}]

SecretArgs == {<<"api", "-", "key">>, <<" ", "token">>, <<" ">>, <<"a", "/", "b">>}

\* a compose file that someone else puts into the new stack folder
StrangerFile ==
    Doc("map", <<Entry("services", NoComment, "map",
                       <<Item(<<"w", "e", "b">>, "str", NoComment, OldDef)>>)>>)

Run(cmd, name, name_first) ==
    [cmd |-> cmd, pc |-> "begin", nested |-> FALSE, name |-> name,
     name_first |-> name_first, db_service_name |-> <<>>,
     attach_selected |-> <<>>, app_name |-> <<>>, net_name |-> <<>>,
     exit |-> "running", report |-> <<>>]

CliRuns ==
    {Run("new", n, FALSE) : n \in CliNames}
    \cup {Run("append", n, f) : n \in CliNames, f \in BOOLEAN}
    \cup {[Run("create_db", <<>>, FALSE) EXCEPT !.db_service_name = n] :
            n \in {db_name(Folder), <<"w", "e", "b", "-db">>}}
    \cup {Run("create_secret", n, FALSE) : n \in SecretArgs}

FileSystem ==
    [compose_file |-> compose_file, stack_dir |-> stack_dir,
     main_file |-> main_file, used |-> used, secret_files |-> secret_files]

Event(e, cmd, what) == [e |-> e, cmd |-> cmd, what |-> what]

idleVars == <<phase, rawProfiles, profiles, kwargs, service, out, last, prev, title>>

\* new needs a folder that does not exist (folder_available_cb); append and
\* create_db need a compose file that exists (click.Path(exists=True))
InitCli ==
    /\ phase = "cli"
    /\ cli \in CliRuns
    /\ IF cli.cmd \in {"append", "create_db"}
       THEN compose_file \in CliComposeFiles /\ stack_dir = TRUE
       ELSE compose_file = Absent /\ stack_dir = FALSE
    /\ main_file \in CliMainFiles
    /\ used \in CliSubnets
    /\ secret_files \in {NoSecrets, SomeSecrets}
    /\ chosen = NoPick
    /\ events = <<>>
    /\ start = FileSystem
    /\ rawProfiles = Idle /\ profiles = Idle
    /\ kwargs = Idle /\ service = Idle /\ out = Idle
    /\ last = Idle /\ prev = Idle /\ title = Idle

\* the command ends: a raised exception, or a return
Ended(exit, report) == [cli EXCEPT !.pc = "done", !.exit = exit, !.report = report]

NoChangesMade == <<"No changes made.">>

\* the answer no at the command's confirmation prompt
Declined ==
    /\ events' = events \o <<Event("declined", cli.cmd, <<>>),
                             Event("report", cli.cmd, NoChangesMade)>>
    /\ cli' = Ended("normal", NoChangesMade)
    /\ UNCHANGED <<compose_file, stack_dir, main_file, used, chosen,
                   secret_files, start, idleVars>>

\* a variant of the previews that creates the stack folder
NewPreview_mkdir ==
    /\ phase = "cli" /\ cli.cmd = "new" /\ cli.pc = "begin"
    /\ events' = Append(events, Event("preview", "new", <<>>))
    /\ cli' = [cli EXCEPT !.pc = "confirm"]
    /\ stack_dir' = TRUE
    /\ UNCHANGED <<compose_file, main_file, used, chosen,
                   secret_files, start, idleVars>>

\* new: the previews of the stack file and of the include entry
NewPreview ==
    /\ phase = "cli" /\ cli.cmd = "new" /\ cli.pc = "begin"
    /\ events' = Append(events, Event("preview", "new", <<>>))
    /\ cli' = [cli EXCEPT !.pc = "confirm"]
    /\ UNCHANGED <<compose_file, stack_dir, main_file, used, chosen,
                   secret_files, start, idleVars>>

\* between folder_available_cb and the test stack_compose.exists(), while
\* new waits at its prompts, the folder and its compose file are created
\* from outside; that is no change made by the command
FolderAppears ==
    /\ phase = "cli" /\ cli.cmd = "new" /\ cli.pc \in {"begin", "confirm"}
    /\ ~compose_file.exists
    /\ compose_file' = StrangerFile
    /\ stack_dir' = TRUE
    /\ start' = [start EXCEPT !.compose_file = StrangerFile, !.stack_dir = TRUE]
    /\ UNCHANGED <<main_file, used, chosen, secret_files, cli, events, idleVars>>

\* new: "Proceed to create the new stack and update main include?"
NewConfirm ==
    /\ phase = "cli" /\ cli.cmd = "new" /\ cli.pc = "confirm"
    /\ \E proceed \in BOOLEAN :
          IF ~proceed THEN Declined
          ELSE /\ events' = Append(events, Event("confirmed", "new", <<>>))
               /\ cli' = [cli EXCEPT !.pc = "write"]
               /\ UNCHANGED <<compose_file, stack_dir, main_file, used, chosen,
                              secret_files, start, idleVars>>

\* a variant of new that adds the include entry before it writes the stack
\* file
NewWrite_include_first ==
    /\ phase = "cli" /\ cli.cmd = "new" /\ cli.pc = "write"
    /\ \E answer \in BOOLEAN :
          /\ compose_file.exists \/ ~answer
          /\ LET overwrite_file == compose_file.exists /\ answer
                 svc == Service(service_kwargs(cli.name))
                 w == write_new_stack_file(stack_dir, compose_file, svc, overwrite_file)
                 a == append_to_include_with_comment(main_file,
                          rel_include_path(Folder), primary_profile_title(svc), TRUE)
                 asked == IF compose_file.exists
                          THEN <<Event("asked_overwrite", "new", answer)>>
                          ELSE <<>>
                 called == <<Event("call", "new",
                                   [op |-> "write_new_stack_file",
                                    overwrite |-> overwrite_file,
                                    ret |-> w.ret,
                                    before |-> compose_file,
                                    after |-> w.file])>>
                 wrote_stack == IF w.wrote
                                THEN <<Event("write", "new", "stack")>> ELSE <<>>
                 wrote_main == IF a.wrote
                               THEN <<Event("write", "new", "main")>> ELSE <<>>
             IN  /\ stack_dir' = w.dir
                 /\ compose_file' = w.file
                 /\ main_file' = a.file
                 /\ events' = events \o asked \o wrote_main \o called \o wrote_stack
                 /\ cli' = IF a.ret = "IncludeNotList" \/ w.ret = "AlreadyExists"
                           THEN Ended("ClickException", <<>>)
                           ELSE [cli EXCEPT !.pc = "offer_db"]
    /\ UNCHANGED <<used, chosen, secret_files, start, idleVars>>

\* new, once confirmed: the question "exists. Overwrite?" when the stack
\* file exists, write_new_stack_file, append_to_include_with_comment
NewWrite ==
    /\ phase = "cli" /\ cli.cmd = "new" /\ cli.pc = "write"
    /\ \E answer \in BOOLEAN :
          /\ compose_file.exists \/ ~answer
          /\ LET overwrite_file == compose_file.exists /\ answer
                 svc == Service(service_kwargs(cli.name))
                 w == write_new_stack_file(stack_dir, compose_file, svc, overwrite_file)
                 comment == primary_profile_title(svc)
                 a == append_to_include_with_comment(main_file,
                          rel_include_path(Folder), comment, TRUE)
                 asked == IF compose_file.exists
                          THEN <<Event("asked_overwrite", "new", answer)>>
                          ELSE <<>>
                 called == <<Event("call", "new",
                                   [op |-> "write_new_stack_file",
                                    overwrite |-> overwrite_file,
                                    ret |-> w.ret,
                                    before |-> compose_file,
                                    after |-> w.file])>>
                 made == IF w.dir # stack_dir
                         THEN <<Event("mkdir", "new", "stack")>> ELSE <<>>
                 wrote_stack == IF w.wrote
                                THEN <<Event("write", "new", "stack")>> ELSE <<>>
                 wrote_main == IF a.wrote
                               THEN <<Event("write", "new", "main")>> ELSE <<>>
             IN  /\ stack_dir' = w.dir
                 /\ compose_file' = w.file
                 /\ IF w.ret = "AlreadyExists"
                    THEN /\ main_file' = main_file
                         /\ events' = events \o asked \o made \o called \o wrote_stack
                         /\ cli' = Ended("ClickException", <<>>)
                    ELSE /\ main_file' = a.file
                         /\ events' = events \o asked \o made \o called
                                        \o wrote_stack \o wrote_main
                         /\ cli' = IF a.ret = "IncludeNotList"
                                   THEN Ended("ClickException", <<>>)
                                   ELSE [cli EXCEPT !.pc = "offer_db"]
    /\ UNCHANGED <<used, chosen, secret_files, start, idleVars>>

\* new and append: "Would you like to create a Postgres DB service for
\* this app now?", and ctx.invoke(create_db, ...), which runs no callback
OfferDb ==
    /\ phase = "cli" /\ cli.cmd \in {"new", "append"} /\ cli.pc = "offer_db"
    /\ \E yes \in BOOLEAN :
          IF ~yes
          THEN cli' = Ended("normal", <<>>) /\ start' = start
          ELSE /\ cli' = [cli EXCEPT !.cmd = "create_db", !.pc = "db_body",
                                     !.nested = TRUE,
                                     !.db_service_name = db_name(strip(cli.name))]
               /\ start' = FileSystem
    /\ UNCHANGED <<compose_file, stack_dir, main_file, used, chosen,
                   secret_files, events, idleVars>>

\* append: unique_name_cb, which finds no compose_path in ctx.params when
\* --name comes before --compose on the command line, and the preview
AppendBegin ==
    /\ phase = "cli" /\ cli.cmd = "append" /\ cli.pc = "begin"
    /\ LET r == get_existing_service_names(compose_file)
       IN  IF ~cli.name_first /\ r.ret # "names"
           THEN cli' = Ended("ClickException", <<>>) /\ events' = events
           ELSE IF ~cli.name_first
                   /\ \E i \in DOMAIN r.value : r.value[i] = cli.name
           THEN cli' = Ended("BadParameter", <<>>) /\ events' = events
           ELSE /\ cli' = [cli EXCEPT !.pc = "confirm"]
                /\ events' = Append(events, Event("preview", "append", <<>>))
    /\ UNCHANGED <<compose_file, stack_dir, main_file, used, chosen,
                   secret_files, start, idleVars>>

\* the record of a call of upsert_service_in_file
UpsertCall(cmd, file, name) ==
    Event("call", cmd,
          [op |-> "upsert_service_in_file", name |-> name,
           existed |-> HasEntry(load(file), "services")
                       /\ \E i \in DOMAIN get(load(file), "services").items :
                             get(load(file), "services").items[i].k = name])

\* append: "Proceed to append to ...?" and upsert_service_in_file
AppendConfirm ==
    /\ phase = "cli" /\ cli.cmd = "append" /\ cli.pc = "confirm"
    /\ \E proceed \in BOOLEAN :
          IF ~proceed THEN Declined
          ELSE LET svc == Service(service_kwargs(cli.name))
                   u == upsert_service_in_file(compose_file, svc)
               IN  /\ compose_file' = u.file
                   /\ events' = events
                        \o <<Event("confirmed", "append", <<>>),
                             UpsertCall("append", compose_file, svc.name)>>
                        \o (IF u.wrote THEN <<Event("write", "append", "compose")>>
                            ELSE <<>>)
                   /\ cli' = IF u.ret # "None" THEN Ended("ClickException", <<>>)
                             ELSE [cli EXCEPT !.pc = "offer_db"]
                   /\ UNCHANGED <<stack_dir, main_file, used, chosen,
                                  secret_files, start, idleVars>>

\* create_db from the command line: db_service_name_cb
DbBegin ==
    /\ phase = "cli" /\ cli.cmd = "create_db" /\ ~cli.nested /\ cli.pc = "begin"
    /\ LET r == get_existing_service_names(compose_file)
       IN  cli' = IF r.ret # "names" THEN Ended("ClickException", <<>>)
                  ELSE IF \E i \in DOMAIN r.value : r.value[i] = cli.db_service_name
                  THEN Ended("BadParameter", <<>>)
                  ELSE [cli EXCEPT !.pc = "db_body"]
    /\ UNCHANGED <<compose_file, stack_dir, main_file, used, chosen,
                   secret_files, events, start, idleVars>>

\* create_db up to its confirmation prompt: the services to attach, the
\* prefix (left at its default), the question "Rename DB service to ...?",
\* the subnet, the credentials (left at their defaults) and the previews
DbBody ==
    /\ phase = "cli" /\ cli.cmd = "create_db" /\ cli.pc = "db_body"
    /\ LET r == get_existing_service_names(compose_file)
       IN  IF r.ret # "names"
           THEN /\ cli' = Ended("ClickException", <<>>)
                /\ UNCHANGED <<chosen, events>>
           ELSE LET existing_services ==
                        SelectSeq(r.value, LAMBDA s : s # cli.db_service_name)
                IN  \E attach_selected \in
                          {<<>>} \cup {<<existing_services[i]>> :
                                          i \in DOMAIN existing_services},
                       rename \in BOOLEAN :
                       LET suggested_prefix ==
                               IF Len(attach_selected) = 1 THEN attach_selected[1]
                               ELSE derive_app_name_from_compose(Folder)
                           app_name == strip(suggested_prefix)
                           desired_db_service == db_name(app_name)
                           db_service_name ==
                               IF cli.db_service_name # desired_db_service /\ rename
                               THEN desired_db_service ELSE cli.db_service_name
                           net_name == db_name(strip(db_service_name))
                           p == pick_unused_subnet(list_root_network_subnets(used))
                       IN  /\ cli.db_service_name # desired_db_service \/ ~rename
                           /\ IF p.ret = "Exhausted"
                              THEN /\ cli' = Ended("ClickException", <<>>)
                                   /\ UNCHANGED <<chosen, events>>
                              ELSE /\ chosen' = [ret |-> p.ret, value |-> p.value,
                                                 existing |-> used]
                                   /\ cli' = [cli EXCEPT
                                                !.pc = "confirm",
                                                !.db_service_name = db_service_name,
                                                !.attach_selected = attach_selected,
                                                !.app_name = app_name,
                                                !.net_name = net_name]
                                   /\ events' = Append(events,
                                                   Event("preview", "create_db", <<>>))
    /\ UNCHANGED <<compose_file, stack_dir, main_file, used,
                   secret_files, start, idleVars>>

\* create_db: "Proceed?"
DbConfirm ==
    /\ phase = "cli" /\ cli.cmd = "create_db" /\ cli.pc = "confirm"
    /\ \E proceed \in BOOLEAN :
          IF ~proceed THEN Declined
          ELSE /\ events' = Append(events, Event("confirmed", "create_db", <<>>))
               /\ cli' = [cli EXCEPT !.pc = "apply"]
               /\ UNCHANGED <<compose_file, stack_dir, main_file, used, chosen,
                              secret_files, start, idleVars>>

\* a write of the main compose file, which is created when it is missing
written_main(file) == IF file.exists THEN file ELSE dump(CommentedMap)

\* the record of a call of ensure_secret_files
EnsureCall(cmd, dir, contents, e) ==
    Event("call", cmd,
          [op |-> "ensure_secret_files", names |-> {c.name : c \in contents},
           ret |-> e.ret, before |-> dir.files, after |-> e.dir.files])

\* create_db, once confirmed: the network, the secret files, the secrets
\* of the main file, the DB service, the attachments; the last statement
\* of the function raises TypeError when no service was attached
DbApply ==
    /\ phase = "cli" /\ cli.cmd = "create_db" /\ cli.pc = "apply"
    /\ LET svc == Service(db_service_kwargs(cli.db_service_name, cli.app_name,
                                            cli.net_name))
           contents == secret_contents(cli.app_name)
           e == ensure_secret_files(secret_files, contents)
           u == upsert_service_in_file(compose_file, svc)
           net == <<Event("write", "create_db", "main")>>
           ens == <<EnsureCall("create_db", secret_files, contents, e)>>
       IN  /\ used' = upsert_network_in_main_compose(used, chosen.value)
           /\ main_file' = written_main(main_file)
           /\ IF e.ret = "AlreadyExists"
              THEN /\ events' = events \o net \o ens
                   /\ cli' = Ended("ClickException", <<>>)
                   /\ UNCHANGED <<secret_files, compose_file>>
              ELSE IF u.ret # "None"
              THEN /\ secret_files' = upsert_root_secrets(e.dir,
                                          {c.name : c \in contents})
                   /\ events' = events \o net \o ens
                        \o <<Event("write", "create_db", "secret"),
                             Event("write", "create_db", "main"),
                             UpsertCall("create_db", compose_file, svc.name)>>
                   /\ cli' = Ended("ClickException", <<>>)
                   /\ UNCHANGED compose_file
              ELSE /\ secret_files' = upsert_root_secrets(e.dir,
                                          {c.name : c \in contents})
                   /\ compose_file' = attach_network_to_services(u.file,
                                          cli.attach_selected, cli.net_name)
                   /\ events' = events \o net \o ens
                        \o <<Event("write", "create_db", "secret"),
                             Event("write", "create_db", "main"),
                             UpsertCall("create_db", compose_file, svc.name),
                             Event("write", "create_db", "compose")>>
                   /\ cli' = IF cli.attach_selected # <<>> THEN Ended("normal", <<>>)
                             ELSE IF cli.nested THEN Ended("ClickException", <<>>)
                             ELSE Ended("TypeError", <<>>)
    /\ UNCHANGED <<stack_dir, chosen, start, idleVars>>

\* a variant that writes the secret file whether or not it exists
CreateSecret_overwriting ==
    /\ phase = "cli" /\ cli.cmd = "create_secret" /\ cli.pc = "begin"
    /\ LET name == secret_name_of(cli.name)
           contents == {[name |-> name, value |-> <<"generated">>]}
           kept == {f \in secret_files.files : f.name # name}
           e == [ret |-> "None", value |-> {},
                 dir |-> [secret_files EXCEPT !.exists = TRUE,
                                              !.files = kept \cup contents]]
       IN  /\ secret_files' = upsert_root_secrets(e.dir, {name})
           /\ main_file' = written_main(main_file)
           /\ events' = events
                \o <<EnsureCall("create_secret", secret_files, contents, e),
                     Event("write", "create_secret", "secret"),
                     Event("write", "create_secret", "main")>>
           /\ cli' = Ended("normal", <<>>)
    /\ UNCHANGED <<compose_file, stack_dir, used, chosen, start, idleVars>>

\* create_secret: the whole command; it shows no preview and asks nothing
CreateSecret ==
    /\ phase = "cli" /\ cli.cmd = "create_secret" /\ cli.pc = "begin"
    /\ LET name == secret_name_of(cli.name)
           contents == {[name |-> name, value |-> <<"generated">>]}
           e == ensure_secret_files(secret_files, contents)
       IN  IF name = <<>> \/ \E i \in DOMAIN name : name[i] \in {"/", "\\"}
           THEN /\ cli' = Ended("ClickException", <<>>)
                /\ UNCHANGED <<secret_files, main_file, events>>
           ELSE IF e.ret = "AlreadyExists"
           THEN /\ cli' = Ended("ClickException", <<>>)
                /\ events' = Append(events,
                                EnsureCall("create_secret", secret_files, contents, e))
                /\ UNCHANGED <<secret_files, main_file>>
           ELSE /\ secret_files' = upsert_root_secrets(e.dir, {name})
                /\ main_file' = written_main(main_file)
                /\ events' = events
                     \o <<EnsureCall("create_secret", secret_files, contents, e),
                          Event("write", "create_secret", "secret"),
                          Event("write", "create_secret", "main")>>
                /\ cli' = Ended("normal", <<>>)
    /\ UNCHANGED <<compose_file, stack_dir, used, chosen, start, idleVars>>

NextCli ==
    \/ NewPreview \/ FolderAppears \/ NewConfirm \/ NewWrite \/ OfferDb
    \/ AppendBegin \/ AppendConfirm
    \/ DbBegin \/ DbBody \/ DbConfirm \/ DbApply
    \/ CreateSecret

SpecCli == InitCli /\ [][NextCli]_vars

----------------------------------------------------------------------------
(* Claims about the profiles validators *)

\* An occurrence <<i, a, b>> of a token in the input: characters a..b of item
\* i hold no comma, begin and end with a non-blank, and only blanks lie
\* between them and the nearest comma (or end of the item) on either side.
Occurrences(v) ==
    {o \in UNION {{<<i, a, b>> : a \in 1..Len(v.items[i]), b \in 1..Len(v.items[i])}
                    : i \in DOMAIN v.items} :
        LET item == v.items[o[1]]
            a == o[2]
            b == o[3]
        IN  /\ a <= b
            /\ item[a] # " " /\ item[b] # " "
            /\ \A k \in a..b : item[k] # ","
            /\ \A k \in 1..(a - 1) :
                  item[k] \in {" ", ","} \/ \E j \in (k + 1)..(a - 1) : item[j] = ","
            /\ \A k \in (b + 1)..Len(item) :
                  item[k] \in {" ", ","} \/ \E j \in (b + 1)..(k - 1) : item[j] = ","}

TokenAt(v, o) == SubSeq(v.items[o[1]], o[2], o[3])

Earlier(o1, o2) == o1[1] < o2[1] \/ (o1[1] = o2[1] /\ o1[2] < o2[2])

Count(seq, x) == Cardinality({i \in DOMAIN seq : seq[i] = x})

\* C2: after validation of any profiles input, "all" occurs exactly once,
\* every distinct non-empty trimmed entry of the input occurs exactly once,
\* nothing else occurs, and the entries stand in the order of their first
\* occurrence in the input ("all" last when the input does not hold it).
C2_ProfilesNormalized ==
    phase = "validated" =>
        LET occ == Occurrences(rawProfiles)
        IN  /\ Count(profiles, ALL) = 1
            /\ \A o \in occ : Count(profiles, TokenAt(rawProfiles, o)) = 1
            /\ \A i \in DOMAIN profiles :
                  profiles[i] = ALL
                  \/ \E o \in occ : TokenAt(rawProfiles, o) = profiles[i]
            /\ \A i, j \in DOMAIN profiles :
                  i < j =>
                    \E o1 \in occ :
                        /\ TokenAt(rawProfiles, o1) = profiles[i]
                        /\ \A o2 \in occ :
                              TokenAt(rawProfiles, o2) = profiles[j] => Earlier(o1, o2)

\* a list whose item joins "all" and another entry by a comma, "all" first
C2_Witness ==
    /\ phase = "validated"
    /\ rawProfiles.kind = "list"
    /\ \E i \in DOMAIN rawProfiles.items :
          \E k \in 1..Len(rawProfiles.items[i]) : rawProfiles.items[i][k] = ","
    /\ \E o \in Occurrences(rawProfiles) : TokenAt(rawProfiles, o) = ALL
    /\ Len(profiles) = 2
    /\ profiles[1] = ALL

----------------------------------------------------------------------------
(* Claims about the projection *)

Keys(m) == [i \in DOMAIN m |-> m[i].key]

HasKey(m, key) == \E i \in DOMAIN m : m[i].key = key

KeyOrder == <<"image", "container_name", "restart", "profiles", "networks",
              "volumes", "environment", "labels", "ports">>

KeyIndex(key) == CHOOSE i \in DOMAIN KeyOrder : KeyOrder[i] = key

\* C1: the projection holds 'labels' iff expose, and 'ports' iff not expose.
C1_LabelsXorPorts ==
    phase = "projected" =>
        /\ HasKey(out, "labels") <=> service.expose
        /\ HasKey(out, "ports") <=> ~service.expose

C1_Witness ==
    /\ phase = "projected"
    /\ service.expose
    /\ Truthy(service.middleware_chain)
    /\ HasKey(out, "labels")
    /\ ~HasKey(out, "ports")

\* C4: the keys of the projection follow the fixed order, no key is emitted
\* with a null or empty value, and restart None, an empty environment,
\* networks and labels when not exposed, and ports when exposed are omitted.
C4_KeyOrderAndOmission ==
    phase = "projected" =>
        /\ \A i \in DOMAIN out : out[i].key \in {KeyOrder[k] : k \in DOMAIN KeyOrder}
        /\ \A i, j \in DOMAIN out :
              i < j => KeyIndex(out[i].key) < KeyIndex(out[j].key)
        /\ \A i \in DOMAIN out : Truthy(out[i].val)
        /\ service.restart = NoneVal => ~HasKey(out, "restart")
        /\ service.environment.v = <<>> => ~HasKey(out, "environment")
        /\ ~service.expose => ~HasKey(out, "networks") /\ ~HasKey(out, "labels")
        /\ service.expose => ~HasKey(out, "ports")

C4_Witness ==
    /\ phase = "projected"
    /\ service.restart = NoneVal
    /\ service.environment.v = <<>>
    /\ ~service.expose
    /\ Keys(out) = <<"image", "container_name", "profiles", "volumes", "ports">>

----------------------------------------------------------------------------
(* Claims about the operations on the target compose file *)

\* the file's top level is a mapping whose 'services' value is a mapping
HasServicesMap(f) ==
    /\ f.exists
    /\ f.top = "map"
    /\ \E i \in DOMAIN f.entries : f.entries[i].key = "services" /\ f.entries[i].t = "map"

ServicesOf(f) ==
    f.entries[CHOOSE i \in DOMAIN f.entries : f.entries[i].key = "services"].items

ServiceNamed(f, n) ==
    ServicesOf(f)[CHOOSE i \in DOMAIN ServicesOf(f) : ServicesOf(f)[i].k = n]

IsService(f, n) == \E i \in DOMAIN ServicesOf(f) : ServicesOf(f)[i].k = n

UpsertOfExisting ==
    /\ last.op = "upsert_service_in_file"
    /\ HasServicesMap(last.before)
    /\ IsService(last.before, last.arg)

\* C5 as stated: upserting a name that is already a key of 'services' fails
\* with AlreadyExists and leaves the existing definition unchanged.
C5_Original ==
    UpsertOfExisting =>
        /\ last.ret = "AlreadyExists"
        /\ compose_file = last.before

\* C5 as amended: upserting a name that is already a key of 'services' does
\* not fail; it writes the file, and the one entry of that name then holds
\* the projection of the new service.
C5_UpsertReplacesExisting ==
    UpsertOfExisting =>
        /\ last.ret = "None"
        /\ last.wrote
        /\ HasServicesMap(compose_file)
        /\ Cardinality({i \in DOMAIN ServicesOf(compose_file) :
                            ServicesOf(compose_file)[i].k = last.arg}) = 1
        /\ ServiceNamed(compose_file, last.arg).def = last.value

C5_Witness ==
    /\ UpsertOfExisting
    /\ ServiceNamed(last.before, last.arg).def = OldDef
    /\ ServiceNamed(compose_file, last.arg).def # OldDef

\* C6: on an existing file without a top-level 'services' mapping (an empty
\* file, a top level that is no mapping, no 'services' key, or a 'services'
\* value that is no mapping) upsert_service_in_file and
\* get_existing_service_names raise the no-services error, and the file is
\* neither written nor changed.
C6_NoServicesFails ==
    ( /\ last.op \in {"upsert_service_in_file", "get_existing_service_names"}
      /\ last.before.exists
      /\ ~HasServicesMap(last.before) ) =>
        /\ last.ret = "NoServices"
        /\ ~last.wrote
        /\ compose_file = last.before

C6_Witness ==
    /\ last.op = "upsert_service_in_file"
    /\ last.before.exists
    /\ last.before.top = "null"
    /\ last.ret = "NoServices"

\* C7: a successful upsert of name n leaves the head comment and every
\* top-level entry other than 'services' as they were, keeps 'services' at
\* its position, keeps every other service at its position with its value,
\* and puts n's new value at n's old position, or last when n is new.
C7_UpsertFrame ==
    (last.op = "upsert_service_in_file" /\ last.ret = "None") =>
        LET b == last.before
            a == compose_file
            n == last.arg
        IN  /\ HasServicesMap(b) /\ HasServicesMap(a)
            /\ a.head = b.head
            /\ Len(a.entries) = Len(b.entries)
            /\ \A i \in DOMAIN b.entries :
                  IF b.entries[i].key = "services"
                  THEN /\ a.entries[i].key = "services"
                       /\ a.entries[i].c = b.entries[i].c
                  ELSE a.entries[i] = b.entries[i]
            /\ \A i \in DOMAIN ServicesOf(b) :
                  IF ServicesOf(b)[i].k = n
                  THEN /\ ServicesOf(a)[i].k = n
                       /\ ServicesOf(a)[i].def = last.value
                  ELSE ServicesOf(a)[i] = ServicesOf(b)[i]
            /\ IF IsService(b, n)
               THEN Len(ServicesOf(a)) = Len(ServicesOf(b))
               ELSE /\ Len(ServicesOf(a)) = Len(ServicesOf(b)) + 1
                    /\ ServicesOf(a)[Len(ServicesOf(a))].k = n
                    /\ ServicesOf(a)[Len(ServicesOf(a))].def = last.value

\* the first of two services is replaced, the second stays behind it
C7_Witness ==
    /\ last.op = "upsert_service_in_file"
    /\ last.ret = "None"
    /\ Len(ServicesOf(last.before)) >= 2
    /\ ServicesOf(last.before)[1].k = last.arg
    /\ ServicesOf(last.before)[1].def # last.value
    /\ ServicesOf(compose_file)[1].def = last.value
    /\ Len(compose_file.entries) > 1

----------------------------------------------------------------------------
(* Claims about the operations on the main compose file *)

HasInclude(f) ==
    f.exists /\ f.top = "map" /\ \E i \in DOMAIN f.entries : f.entries[i].key = "include"

IncludeOf(f) ==
    f.entries[CHOOSE i \in DOMAIN f.entries : f.entries[i].key = "include"]

\* the include list is absent (also: no file, no mapping, a null value) or a list
IncludeAbsentOrList(f) == HasInclude(f) => IncludeOf(f).t \in {"seq", "null"}

IncludeList(f) ==
    IF HasInclude(f) /\ IncludeOf(f).t = "seq" THEN IncludeOf(f).items ELSE <<>>

Listed(f, p) == \E i \in DOMAIN IncludeList(f) : IncludeList(f)[i].k = p

TwoAppendsOfOnePath ==
    /\ prev.op = "append_to_include_with_comment"
    /\ last.op = "append_to_include_with_comment"
    /\ prev.arg = last.arg

SecondIsNoOp ==
    /\ last.ret = "False"
    /\ ~last.wrote
    /\ main_file = last.before

\* C3 as stated: for any main compose file and any path, the second of two
\* calls with the same path returns False, writes nothing and leaves the
\* content as it was after the first.
C3_Original == TwoAppendsOfOnePath => SecondIsNoOp

\* C3 as amended: when the first call returned (True or False: the include
\* value is absent or a list), the second call with the same path returns
\* False, writes nothing and leaves the content as it was after the first.
C3_AppendIdempotent ==
    (TwoAppendsOfOnePath /\ prev.ret \in {"True", "False"}) => SecondIsNoOp

C3_Witness ==
    /\ TwoAppendsOfOnePath
    /\ prev.ret = "True"
    /\ last.ret = "False"
    /\ Listed(main_file, last.arg)

\* C8: when the include value is absent or a list that does not hold the
\* path, the call returns True and writes the file; afterwards the include
\* value is a list made of the former entries in their order followed by
\* the path, with the comment or, when attaching it failed, without.
C8_AppendsLast ==
    ( /\ last.op = "append_to_include_with_comment"
      /\ IncludeAbsentOrList(last.before)
      /\ ~Listed(last.before, last.arg) ) =>
        /\ last.ret = "True"
        /\ last.wrote
        /\ HasInclude(main_file)
        /\ IncludeOf(main_file).t = "seq"
        /\ \E c \in CommentTexts \cup {NoComment} :
              IncludeList(main_file)
                = Append(IncludeList(last.before), Item(last.arg, "str", c, <<>>))

\* the include key was absent and attaching the comment failed
C8_Witness ==
    /\ last.op = "append_to_include_with_comment"
    /\ last.before.exists
    /\ last.before.top = "map"
    /\ ~HasInclude(last.before)
    /\ last.ret = "True"
    /\ IncludeList(main_file) = <<Item(last.arg, "str", NoComment, <<>>)>>

\* C9: load_main_compose of a missing file returns an empty mapping and
\* raises nothing; upsert_service_in_file and get_existing_service_names
\* of a missing file raise the not-found error; no file is created.
C9_MissingFile ==
    /\ (last.op = "load_main_compose" /\ ~last.before.exists) =>
          /\ last.ret = "data"
          /\ last.value = CommentedMap
          /\ ~main_file.exists
    /\ ( /\ last.op \in {"upsert_service_in_file", "get_existing_service_names"}
         /\ ~last.before.exists ) =>
          /\ last.ret = "NotFound"
          /\ ~last.wrote
          /\ ~compose_file.exists

C9_Witness ==
    /\ last.op = "get_existing_service_names"
    /\ ~last.before.exists
    /\ last.ret = "NotFound"
    /\ ~compose_file.exists

WithoutInclude(entries) == SelectSeq(entries, LAMBDA e : e.key # "include")

\* C10: after a successful append to an existing file, the top-level node
\* is of the kind it was, the head comment and every top-level entry other
\* than 'include' are as they were and in their order, and the include
\* list is the former one plus one entry.
C10_AppendPreservesContent ==
    ( /\ last.op = "append_to_include_with_comment"
      /\ last.ret = "True"
      /\ last.before.exists ) =>
        /\ last.before.top \in {"seq", "str"} => main_file.top = last.before.top
        /\ main_file.head = last.before.head
        /\ WithoutInclude(main_file.entries) = WithoutInclude(last.before.entries)
        /\ Len(IncludeList(main_file)) = Len(IncludeList(last.before)) + 1
        /\ SubSeq(IncludeList(main_file), 1, Len(IncludeList(last.before)))
              = IncludeList(last.before)

----------------------------------------------------------------------------
(* Claims about the ports, the networks and the include comment *)

ValueOf(m, key) == m[CHOOSE i \in DOMAIN m : m[i].key = key].val

\* C14: for a Service with expose false, 'ports' is the one-element list
\* "E:I" where I is internal_port and E is external_port when one is given,
\* 0 included, and internal_port otherwise; 8080 with no external port
\* gives "8080:8080".
C14_PortsMapping ==
    phase \in {"projected", "titled"} /\ ~kwargs.expose =>
        LET E == IF kwargs.external_port # NoPort THEN kwargs.external_port
                 ELSE kwargs.internal_port
        IN  /\ HasKey(out, "ports")
            /\ ValueOf(out, "ports")
                 = ListVal(<< str(E) \o <<":">> \o str(kwargs.internal_port) >>)
            /\ kwargs.internal_port = 8080 /\ kwargs.external_port = NoPort
                 => ValueOf(out, "ports").v
                      = << [k |-> <<>>, v |-> <<"8080", ":", "8080">>] >>

\* an external port of 0 is given and is used
C14_Witness ==
    /\ phase = "projected"
    /\ ~kwargs.expose
    /\ kwargs.external_port = 0
    /\ kwargs.internal_port = 8080
    /\ ValueOf(out, "ports").v = << [k |-> <<>>, v |-> <<"0", ":", "8080">>] >>

\* C16: the projection has 'networks' iff expose is true; its value is then
\* the one-element list naming the reverse-proxy network; 'networks' and
\* 'ports' never appear together.
C16_NetworksIffExpose ==
    phase \in {"projected", "titled"} =>
        /\ HasKey(out, "networks") <=> kwargs.expose
        /\ HasKey(out, "networks")
             => ValueOf(out, "networks").v = << [k |-> <<>>, v |-> <<"t2_proxy">>] >>
        /\ ~(HasKey(out, "networks") /\ HasKey(out, "ports"))

C16_Witness ==
    /\ phase = "projected"
    /\ kwargs.expose
    /\ HasKey(out, "networks")
    /\ Len(ValueOf(out, "networks").v) = 1
    /\ ~HasKey(out, "ports")

FirstLetterCapitalized(s) ==
    IF s = <<>> THEN <<>> ELSE upper(<<s[1]>>) \o Tail(s)

FirstOf(S) == CHOOSE i \in S : \A j \in S : i <= j

\* C15 as stated: the comment is the first normalized profile that is not
\* "all", capitalized, and the capitalized service name exactly when the
\* profiles hold no entry other than "all".
C15_Original ==
    phase = "titled" =>
        LET others == {i \in DOMAIN service.profiles : service.profiles[i] # ALL}
        IN  /\ others # {}
                 => title = FirstLetterCapitalized(service.profiles[FirstOf(others)])
            /\ title = FirstLetterCapitalized(service.name) <=> others = {}

\* C15: the comment is the first normalized profile that is not "all" in any
\* letter case, with its first letter capitalized, and the service name with
\* its first letter capitalized exactly when every profile is "all" in some
\* letter case.
C15_CommentFromProfiles ==
    phase = "titled" =>
        LET others == {i \in DOMAIN service.profiles :
                          lower(service.profiles[i]) # ALL}
        IN  /\ others # {}
                 => title = FirstLetterCapitalized(service.profiles[FirstOf(others)])
            /\ title = FirstLetterCapitalized(service.name) <=> others = {}

\* "all" comes first and is passed over for the profile after it
C15_Witness ==
    /\ phase = "titled"
    /\ Len(service.profiles) = 2
    /\ service.profiles[1] = ALL
    /\ title = FirstLetterCapitalized(service.profiles[2])

----------------------------------------------------------------------------
(* Claims about the mutators' outcomes *)

Mutators == {"upsert_service_in_file", "write_new_stack_file",
             "append_to_include_with_comment"}

Raised == {"NotFound", "NoServices", "AlreadyExists", "IncludeNotList"}

TargetFile == IF phase = "main" THEN main_file ELSE compose_file

\* the edit of the last call is in the file in full
FullyApplied ==
    CASE last.op = "upsert_service_in_file" ->
           /\ IsService(compose_file, last.arg)
           /\ ServiceNamed(compose_file, last.arg).def = last.value
      [] last.op = "write_new_stack_file" ->
           /\ stack_dir
           /\ compose_file.exists /\ compose_file.top = "map"
           /\ Len(compose_file.entries) = 1
           /\ Len(ServicesOf(compose_file)) = 1
           /\ ServicesOf(compose_file)[1].k = last.arg
           /\ ServicesOf(compose_file)[1].def = last.value
      [] last.op = "append_to_include_with_comment" ->
           /\ Len(IncludeList(main_file)) = Len(IncludeList(last.before)) + 1
           /\ IncludeList(main_file)[Len(IncludeList(main_file))].k = last.arg

FileSystemAsBefore ==
    /\ TargetFile = last.before
    /\ last.op = "write_new_stack_file" => stack_dir = last.dir_before

\* C13: a call of upsert_service_in_file, write_new_stack_file or
\* append_to_include_with_comment either applies its edit in full and
\* writes the file, or leaves the file system as it was before the call;
\* a call that raises has written nothing.
C13_AllOrNothing ==
    last.op \in Mutators =>
        /\ \/ last.wrote /\ FullyApplied
           \/ ~last.wrote /\ FileSystemAsBefore
        /\ last.ret \in Raised => ~last.wrote /\ FileSystemAsBefore
        /\ last.ret \notin Raised => last.ret \in {"None", "True", "False"}
        /\ last.ret \in {"None", "True"} => last.wrote /\ FullyApplied

\* write_new_stack_file refuses a file that holds two services
C13_Witness ==
    /\ last.op = "write_new_stack_file"
    /\ last.ret = "AlreadyExists"
    /\ ~last.overwrite
    /\ HasServicesMap(last.before)
    /\ Len(ServicesOf(last.before)) = 2
    /\ compose_file = last.before
    /\ stack_dir

----------------------------------------------------------------------------
(* Claims about the subnet allocation *)

PoolSet == {CandidatePool[i] : i \in DOMAIN CandidatePool}

\* C17: pick_unused_subnet returns the first candidate of the pool that is
\* not in the used set, the same one for the same used set, the first pool
\* entry for an empty used set, and fails with Exhausted when every
\* candidate is used; the subnet that create_db assigns is not one already
\* listed in the main compose file's networks.
C17_FirstUnusedSubnet ==
    (phase = "subnet" /\ chosen # NoPick) =>
        /\ PoolSet \subseteq chosen.existing <=> chosen.ret = "Exhausted"
        /\ chosen.ret # "Exhausted" =>
              /\ chosen.ret = "subnet"
              /\ \E i \in DOMAIN CandidatePool :
                    /\ chosen.value = CandidatePool[i]
                    /\ chosen.value \notin chosen.existing
                    /\ \A j \in 1..(i - 1) : CandidatePool[j] \in chosen.existing
              /\ chosen.existing = {} => chosen.value = CandidatePool[1]
              /\ chosen.value \notin used

\* the first two candidates are in use and the third is chosen
C17_Witness ==
    /\ phase = "subnet"
    /\ chosen.ret = "subnet"
    /\ {CandidatePool[1], CandidatePool[2], Foreign} \subseteq used
    /\ chosen.value = CandidatePool[3]

----------------------------------------------------------------------------
(* Claims about the commands *)

IsCall(ev, op) == ev.e = "call" /\ ev.what.op = op

\* C11: in new, append and create_db, the answer no at the command's
\* confirmation prompt ends the command normally with the report
\* "No changes made." and with no file or directory created or modified
\* by that command.
C11_DeclineChangesNothing ==
    phase = "cli" =>
        \A i \in DOMAIN events :
            events[i].e = "declined" =>
                /\ events[i].cmd \in {"new", "append", "create_db"}
                /\ Len(events) = i + 1
                /\ events[i + 1] = Event("report", events[i].cmd, NoChangesMade)
                /\ cli.pc = "done"
                /\ cli.exit = "normal"
                /\ cli.report = NoChangesMade
                /\ FileSystem = start
                /\ \A j \in 1..i :
                      events[j].cmd = events[i].cmd
                          => events[j].e \in {"preview", "declined"}

\* create_db, entered from new after new wrote its files, is declined
C11_Witness ==
    /\ phase = "cli"
    /\ cli.cmd = "create_db" /\ cli.nested
    /\ cli.report = NoChangesMade
    /\ \E i \in DOMAIN events : events[i] = Event("declined", "create_db", <<>>)
    /\ \E i \in DOMAIN events : events[i] = Event("write", "new", "main")
    /\ compose_file.exists
    /\ FileSystem = start

\* C12: in every command, every write to a file comes after a preview of
\* the change and after the user's confirmation in that run.
C12_WritesAfterConfirmation ==
    phase = "cli" =>
        \A i \in DOMAIN events :
            events[i].e \in {"write", "mkdir"} =>
                \E j, k \in 1..(i - 1) :
                    /\ j < k
                    /\ events[j] = Event("preview", events[i].cmd, <<>>)
                    /\ events[k] = Event("confirmed", events[i].cmd, <<>>)

\* C18: ensure_secret_files never overwrites: when a file of a requested
\* name exists in the secrets directory the call fails with AlreadyExists
\* and the content of the existing file is unchanged.
C18_SecretsNeverOverwritten ==
    phase = "cli" =>
        /\ \A i \in DOMAIN events :
              (IsCall(events[i], "ensure_secret_files")
               /\ events[i].what.names \cap FileNames(events[i].what.before) # {})
                  => /\ events[i].what.ret = "AlreadyExists"
                     /\ events[i].what.after = events[i].what.before
        /\ \A i \in DOMAIN events :
              IsCall(events[i], "ensure_secret_files")
                  => events[i].what.before \subseteq events[i].what.after
        /\ start.secret_files.files \subseteq secret_files.files

\* create_db meets the password file of another run
C18_Witness ==
    /\ phase = "cli"
    /\ \E i \in DOMAIN events :
          /\ IsCall(events[i], "ensure_secret_files")
          /\ events[i].cmd = "create_db"
          /\ events[i].what.ret = "AlreadyExists"
          /\ events[i].what.before = SomeSecrets.files
    /\ secret_files = SomeSecrets
    /\ cli.exit = "ClickException"

\* C19: write_new_stack_file with overwrite false on a stack compose file
\* that exists fails with the already-exists error and leaves the file as
\* it was, and new replaces a stack compose file that exists only after
\* the user answered yes to the overwrite question.
C19_OverwriteOnlyWhenConfirmed ==
    phase = "cli" =>
        \A i \in DOMAIN events :
            IsCall(events[i], "write_new_stack_file") =>
                LET c == events[i].what
                IN  /\ c.before.exists /\ ~c.overwrite
                        => /\ c.ret = "AlreadyExists"
                           /\ c.after = c.before
                           /\ i = Len(events)
                           /\ cli.exit = "ClickException"
                           /\ compose_file = c.before
                    /\ c.before.exists /\ c.after # c.before
                        => /\ c.overwrite
                           /\ \E j \in 1..(i - 1) :
                                 events[j] = Event("asked_overwrite", "new", TRUE)

\* the overwrite question is answered no
C19_Witness ==
    /\ phase = "cli"
    /\ \E i \in DOMAIN events :
          /\ IsCall(events[i], "write_new_stack_file")
          /\ events[i].what.ret = "AlreadyExists"
          /\ events[i - 1] = Event("asked_overwrite", "new", FALSE)
    /\ compose_file = StrangerFile

\* C20: every call of upsert_service_in_file made by append and create_db,
\* create_db entered from new or append and create_db after its rename
\* included, has a service name that is not yet a key of the target
\* file's 'services'.
C20_UpsertNamesAreNew ==
    phase = "cli" =>
        \A i \in DOMAIN events :
            IsCall(events[i], "upsert_service_in_file") => ~events[i].what.existed

\* the definition of the DB service in the compose file
DbServiceDef == ServiceNamed(compose_file, cli.db_service_name).def

Lists(val, item) == \E i \in DOMAIN val.v : val.v[i].v = item

\* C21: the database service that create_db writes is attached to the
\* network it creates and references its secrets: the extra networks list
\* and the secrets list given to the Service are in the written definition.
C21_DbServiceNetworksAndSecrets ==
    (/\ phase = "cli"
     /\ cli.cmd = "create_db"
     /\ \E i \in DOMAIN events : events[i] = Event("write", "create_db", "compose"))
        => /\ HasKey(DbServiceDef, "networks")
           /\ Lists(ValueOf(DbServiceDef, "networks"), cli.net_name)
           /\ HasKey(DbServiceDef, "secrets")
           /\ \A n \in {secret_db(cli.app_name), secret_user(cli.app_name),
                        secret_password(cli.app_name)} :
                 Lists(ValueOf(DbServiceDef, "secrets"), n)

\* C22: in new the write of the stack compose file precedes the write of
\* the main compose file, and when the write of the stack file fails the
\* main compose file is not modified.
C22_StackBeforeInclude ==
    phase = "cli" =>
        /\ \A i \in DOMAIN events :
              events[i] = Event("write", "new", "main")
                  => \E j \in 1..(i - 1) :
                        /\ events[j] = Event("write", "new", "stack")
                        /\ \E c \in 1..(j - 1) :
                              /\ IsCall(events[c], "write_new_stack_file")
                              /\ events[c].what.ret = "None"
        /\ \A i \in DOMAIN events :
              (IsCall(events[i], "write_new_stack_file")
               /\ events[i].what.ret # "None")
                  => /\ main_file = start.main_file
                     /\ \A j \in DOMAIN events :
                           events[j] # Event("write", "new", "main")

\* the stack file is written, then the include entry is added
C22_Witness ==
    /\ phase = "cli"
    /\ cli.cmd = "new" /\ cli.pc = "offer_db"
    /\ Len(events) >= 2
    /\ events[Len(events) - 1] = Event("write", "new", "stack")
    /\ events[Len(events)] = Event("write", "new", "main")
    /\ main_file # start.main_file
    /\ compose_file.exists

====
